---- MODULE Spec2Model ----
(***************************************************************************)
(* Model of the nanosheet backend: the room registry and room lifecycle    *)
(* (server.py), the debounced snapshot saver (server.py), the snapshot     *)
(* store (gcs_snapshots.py) and the Yjs document operations (yjs_sync.py,  *)
(* cards_api.py).                                                          *)
(*                                                                         *)
(* Strings that the code takes apart (room names) are sequences of         *)
(* one-character strings; identifiers the code only compares (row, lane    *)
(* and card ids) are plain strings.  A Python dict / Y.Map is a function   *)
(* whose DOMAIN is the set of keys present; a Y.Array is a sequence.       *)
(* A cell key f"{row_id}:{lane_id}" is the pair <<row_id, lane_id>>.       *)
(***************************************************************************)
EXTENDS Integers, Sequences, FiniteSets, TLC

VARIABLES
    GCS_BUCKET,      \* server.py:32   TRUE iff YJS_GCS_BUCKET is set
    rooms,           \* WebsocketServer.rooms: name -> index of the Room in heap
    heap,            \* the NanosheetRoom objects ever constructed, in order
    store,           \* the bucket: sheet id -> snapshot blob
    snapshot_tasks,  \* server.py:35   sheet id -> index of a save task
    tasks,           \* the save_task() asyncio tasks ever created
    ready,           \* the event loop's FIFO queue of callbacks ready to run
    sinceLast,       \* sheet id -> ticks since its last change notification
    notifs,          \* sheet id -> change notifications received so far
    saves,           \* sheet id -> save_snapshot invocations so far
    gapOK,           \* sheet id -> every notification came < Delay after the previous
    last,            \* the last API call: operation, arguments, outcome, document before
    txnBeforeStart,  \* a transaction ran on a Room whose start() had not completed
    batch,           \* upload batch: insert_index values not yet sent, in progress, inserted
    ulids,           \* number of ulid.new() identifiers generated so far
    purges,          \* log of the runs of delete_all_snapshots: sheet loaded, bucket before, blobs kept
    requests         \* concurrent API request tasks of one Room, edit by edit, and what another task read

vars == <<GCS_BUCKET, rooms, heap, store, snapshot_tasks, tasks, ready,
          sinceLast, notifs, saves, gapOK, last, txnBeforeStart, batch, ulids, purges,
          requests>>

-----------------------------------------------------------------------------
(* Bounds of the model *)

MaxRows == 4        \* longest rowOrder explored
MaxOffset == 3      \* largest position_offset explored
MaxNotifs == 3      \* change notifications per run of the debouncer
MaxCols == 2        \* largest num_cols and longest cards_per_col of a regeneration
MaxOcc == 2         \* largest entry of cards_per_col

RowIds == {"r0", "r1", "r2", "r3"}
LaneIds == {"c0", "c1"}
CardIds == {"A", "B"}
Offsets == 0 .. MaxOffset

-----------------------------------------------------------------------------
(* Python helpers *)

Put(d, k, v) == [x \in (DOMAIN d) \cup {k} |-> IF x = k THEN v ELSE d[x]]

Pop(d, k) == [x \in (DOMAIN d) \ {k} |-> d[x]]

At(s, i) == s[i + 1]

RECURSIVE SeqsUpTo(_, _)
SeqsUpTo(S, n) ==
    IF n = 0 THEN {<< >>}
    ELSE LET shorter == SeqsUpTo(S, n - 1)
         IN shorter \cup {Append(s, x) : s \in {t \in shorter : Len(t) = n - 1}, x \in S}

\* str.replace(pat, ''): drop every non-overlapping occurrence, left to right
RECURSIVE Replace(_, _)
Replace(s, pat) ==
    IF Len(s) < Len(pat) THEN s
    ELSE IF SubSeq(s, 1, Len(pat)) = pat
         THEN Replace(SubSeq(s, Len(pat) + 1, Len(s)), pat)
         ELSE <<Head(s)>> \o Replace(Tail(s), pat)

-----------------------------------------------------------------------------
(* Names *)

Prefix == <<"/", "y", "j", "s", "/">>

SheetA == <<"A">>
SheetB == <<"B">>
SheetIds == {SheetA, Prefix \o SheetA}

\* room_name = f"/yjs/{sheet_id}"
RoomKey(sheet_id) == Prefix \o sheet_id

\* room_name = name.replace('/yjs/', '')
room_name_of(name) == Replace(name, Prefix)

Structures == {"rowOrder", "colOrder", "cells", "cardsMetadata"}

-----------------------------------------------------------------------------
(* The Yjs document of a room *)

EmptyDoc == [rowOrder |-> << >>, colOrder |-> << >>, cells |-> << >>, cardsMetadata |-> << >>]

\* outcome of the body of one API call on a document: the document after,
\* the value returned, and for each transaction, in order, the set of shared
\* structures it changed (txns) and the document at its commit (commits).
\* Leaving the `with room.ydoc.begin_transaction()` block commits, also when
\* it is left by return or by an exception.
Outcome(doc, ok, touched) ==
    [doc |-> doc, ok |-> ok, txns |-> <<touched>>, commits |-> <<doc>>]

\* two calls one after the other, the second on the document the first left;
\* the value returned is that of the second
Then(first, second) ==
    [doc |-> second.doc, ok |-> second.ok, txns |-> first.txns \o second.txns,
     commits |-> first.commits \o second.commits]

\* ---- insert_card_at_front_of_lane, the transaction -----------------------

\* a collection that finds no card in the lane
existing_cards_mut(cells, rows, lane_id, from) == << >>

\* existing_cards: the (i, cell) pairs of the occupied cells at rows i >= from
RECURSIVE existing_cards(_, _, _, _)
existing_cards(cells, rows, lane_id, from) ==
    IF from >= Len(rows) THEN << >>
    ELSE LET cell_key == <<At(rows, from), lane_id>>
             rest == existing_cards(cells, rows, lane_id, from + 1)
         IN IF cell_key \in DOMAIN cells THEN <<<<from, cells[cell_key]>>>> \o rest
            ELSE rest

\* the same loop without reversed(): entries 1, 2, ..., in collection order
RECURSIVE shift_down_mut(_, _, _, _, _, _)
shift_down_mut(cells, rows, lane_id, existing, k, edited) ==
    IF k = 0 THEN [cells |-> cells, raised |-> FALSE, edited |-> edited]
    ELSE LET i == existing[Len(existing) - k + 1][1]
             cell == existing[Len(existing) - k + 1][2]
         IN IF i + 1 >= Len(rows)
            THEN [cells |-> cells, raised |-> TRUE, edited |-> edited]
            ELSE LET old_key == <<At(rows, i), lane_id>>
                     new_key == <<At(rows, i + 1), lane_id>>
                 IN IF old_key \notin DOMAIN cells
                    THEN [cells |-> cells, raised |-> TRUE, edited |-> edited]
                    ELSE shift_down_mut(Put(Pop(cells, old_key), new_key, cell),
                                        rows, lane_id, existing, k - 1, TRUE)

\* the loop over reversed(existing_cards): entries k, k-1, ..., 1.
\* rows[i + 1] past the end raises IndexError; cells.pop of a missing key
\* raises KeyError.  Either ends the loop with the edits made so far.
RECURSIVE shift_down(_, _, _, _, _, _)
shift_down(cells, rows, lane_id, existing, k, edited) ==
    IF k = 0 THEN [cells |-> cells, raised |-> FALSE, edited |-> edited]
    ELSE LET i == existing[k][1]
             cell == existing[k][2]
         IN IF i + 1 >= Len(rows)
            THEN [cells |-> cells, raised |-> TRUE, edited |-> edited]
            ELSE LET old_key == <<At(rows, i), lane_id>>
                     new_key == <<At(rows, i + 1), lane_id>>
                 IN IF old_key \notin DOMAIN cells
                    THEN [cells |-> cells, raised |-> TRUE, edited |-> edited]
                    ELSE shift_down(Put(Pop(cells, old_key), new_key, cell),
                                    rows, lane_id, existing, k - 1, TRUE)

\* the target without the header row: target_position = position_offset
target_position_mut(position_offset) == position_offset

\* target_position = 1 + position_offset
target_position_of(position_offset) == 1 + position_offset

\* the same transaction with an out-of-range target clamped to the last row
insert_card_at_front_of_lane_mut(doc, lane_id, card_id, position_offset) ==
    LET rows == doc.rowOrder
        wanted == target_position_of(position_offset)
        target_position == IF wanted >= Len(rows) THEN Len(rows) - 1 ELSE wanted
    IN IF Len(rows) = 0 THEN Outcome(doc, FALSE, {})
       ELSE LET existing == existing_cards(doc.cells, rows, lane_id, target_position)
                s == shift_down(doc.cells, rows, lane_id, existing, Len(existing), FALSE)
            IN IF s.raised
               THEN Outcome([doc EXCEPT !.cells = s.cells], FALSE,
                            IF s.edited THEN {"cells"} ELSE {})
               ELSE Outcome([doc EXCEPT !.cells =
                                Put(s.cells, <<At(rows, target_position), lane_id>>,
                                    [cardId |-> card_id])],
                            TRUE, {"cells"})

insert_card_at_front_of_lane(doc, lane_id, card_id, position_offset) ==
    LET rows == doc.rowOrder
        target_position == target_position_of(position_offset)
    IN IF Len(rows) = 0 THEN Outcome(doc, FALSE, {})
       ELSE IF target_position >= Len(rows) THEN Outcome(doc, FALSE, {})
       ELSE LET existing == existing_cards(doc.cells, rows, lane_id, target_position)
                s == shift_down(doc.cells, rows, lane_id, existing, Len(existing), FALSE)
            IN IF s.raised
               THEN Outcome([doc EXCEPT !.cells = s.cells], FALSE,
                            IF s.edited THEN {"cells"} ELSE {})
               ELSE Outcome([doc EXCEPT !.cells =
                                Put(s.cells, <<At(rows, target_position), lane_id>>,
                                    [cardId |-> card_id])],
                            TRUE, {"cells"})

\* ---- sync_cell_to_sheet, the transaction ---------------------------------

sync_cell_to_sheet(doc, row_id, col_id, card_id) ==
    LET cell_key == <<row_id, col_id>>
    IN IF card_id = "None"
       THEN IF cell_key \in DOMAIN doc.cells
            THEN Outcome([doc EXCEPT !.cells = Pop(doc.cells, cell_key)], TRUE, {"cells"})
            ELSE Outcome(doc, TRUE, {})
       ELSE Outcome([doc EXCEPT !.cells = Put(doc.cells, cell_key, [cardId |-> card_id])],
                    TRUE, {"cells"})

\* ---- add_row_to_sheet / add_column_to_sheet, the transaction -------------

\* YArray.insert(txn, index, item): an index past the end raises
insert_at(q, position, id) ==
    SubSeq(q, 1, position) \o <<id>> \o SubSeq(q, position + 1, Len(q))

\* variant of add_row_to_sheet that puts every new id first
add_row_to_sheet_mut(doc, row_id, position) ==
    Outcome([doc EXCEPT !.rowOrder = <<row_id>> \o @], TRUE, {"rowOrder"})

\* position: Optional[int] is << >> for None (append) and <<n>> for n
add_row_to_sheet(doc, row_id, position) ==
    IF position = << >>
    THEN Outcome([doc EXCEPT !.rowOrder = Append(@, row_id)], TRUE, {"rowOrder"})
    ELSE IF position[1] > Len(doc.rowOrder) THEN Outcome(doc, FALSE, {})
    ELSE Outcome([doc EXCEPT !.rowOrder = insert_at(@, position[1], row_id)], TRUE, {"rowOrder"})

\* variant of add_column_to_sheet that appends without regard to position
add_column_to_sheet_mut(doc, col_id, position) ==
    Outcome([doc EXCEPT !.colOrder = @ \o <<col_id, col_id>>], TRUE, {"colOrder"})

add_column_to_sheet(doc, col_id, position) ==
    IF position = << >>
    THEN Outcome([doc EXCEPT !.colOrder = Append(@, col_id)], TRUE, {"colOrder"})
    ELSE IF position[1] > Len(doc.colOrder) THEN Outcome(doc, FALSE, {})
    ELSE Outcome([doc EXCEPT !.colOrder = insert_at(@, position[1], col_id)], TRUE, {"colOrder"})

\* ---- the except clause of the YjsSync operations -------------------------

YjsSyncOps ==
    {"sync_card_to_sheet", "remove_card_from_sheet", "set_card_field", "sync_cell_to_sheet",
     "add_row_to_sheet", "add_column_to_sheet", "insert_card_at_front_of_lane"}

\* the local variables (not parameters) that the except clause of the
\* operation reads to build its log message
logged_locals(op) == IF op = "sync_cell_to_sheet" THEN {"cell_key"} ELSE {}

\* the local variables already assigned when the step of the try block fails
assigned_before(op, step) ==
    IF step = "get_room" THEN {"room_name"}
    ELSE IF step = "start" THEN {"room_name", "room"}
    ELSE {"room_name", "room", "cell_key"}

\* except Exception as e: logger.error(f"..."); return False.  Reading a
\* local that was never assigned raises UnboundLocalError out of the clause.
except_clause(op, step) ==
    IF logged_locals(op) \subseteq assigned_before(op, step) THEN "False"
    ELSE "UnboundLocalError"

\* ---- set_card_field, the transaction --------------------------------------

\* For a card without an entry the code takes the root-level map
\* ydoc.get_map(f"card_{card_id}") and sets it as the value of
\* cardsMetadata[card_id].  A map that is already part of the document cannot
\* be nested a second time; what the set does with it is up to the y_py
\* build (nested): it raises with nothing set ("raises"), it raises after an
\* empty entry was set ("raises_set"), or it sets a detached empty copy and
\* the field then goes to the root-level map, outside cardsMetadata
\* ("detached").  An edit of the map of an existing card is a nested-map
\* edit, which the shallow observer of cardsMetadata does not see.
set_card_field(doc, card_id, field, value, nested) ==
    IF card_id \notin DOMAIN doc.cardsMetadata
    THEN IF nested = "raises" THEN Outcome(doc, FALSE, {})
         ELSE Outcome([doc EXCEPT !.cardsMetadata = Put(@, card_id, << >>)],
                      nested = "detached", {"cardsMetadata"})
    ELSE IF value = "None"
    THEN IF field \in DOMAIN doc.cardsMetadata[card_id]
         THEN Outcome([doc EXCEPT !.cardsMetadata[card_id] = Pop(@, field)], TRUE, {})
         ELSE Outcome(doc, TRUE, {})
    ELSE Outcome([doc EXCEPT !.cardsMetadata[card_id] = Put(@, field, value)], TRUE, {})

\* ---- sync_card_to_sheet, the transaction ---------------------------------

\* for key, value in card_data.items(): existing_card.set(txn, key, value)
update_fields(card_map, card_data) ==
    [f \in (DOMAIN card_map) \cup (DOMAIN card_data) |->
        IF f \in DOMAIN card_data THEN card_data[f] ELSE card_map[f]]

\* an existing card is updated in place (a nested-map edit, which the shallow
\* observer of cardsMetadata does not see); a new card is set into cardsMetadata.
\* An existing card whose map is empty is falsy and is replaced.
sync_card_to_sheet(doc, card_id, card_data) ==
    IF card_id \in DOMAIN doc.cardsMetadata /\ DOMAIN doc.cardsMetadata[card_id] # {}
    THEN Outcome([doc EXCEPT !.cardsMetadata[card_id] = update_fields(@, card_data)],
                 TRUE, {})
    ELSE Outcome([doc EXCEPT !.cardsMetadata = Put(@, card_id, card_data)],
                 TRUE, {"cardsMetadata"})

\* ---- regenerate_sheet (cards_api.py:760-946), the two transactions -------

RECURSIVE Sum(_)
Sum(q) == IF q = << >> THEN 0 ELSE Head(q) + Sum(Tail(q))

\* max(cards_per_col) of a non-empty list
RECURSIVE Max(_)
Max(q) == IF Len(q) = 1 THEN q[1] ELSE LET m == Max(Tail(q)) IN IF q[1] > m THEN q[1] ELSE m

\* col_id = f"c-{i}";  row_id = f"r-{ulid.new()}";  card_id = str(ulid.new()):
\* the n-th ulid of the process is the number n
col_id_of(i) == "c-" \o ToString(i)
row_id_of(n) == "r-" \o ToString(n)
card_id_of(n) == "k-" \o ToString(n)

\* variant of the first transaction that appends the columns without deleting
clear_and_add_columns_mut(doc, num_cols) ==
    [doc |-> [doc EXCEPT !.colOrder = @ \o [i \in 1 .. num_cols |-> col_id_of(i - 1)]],
     touched |-> {x \in Structures : x = "colOrder" /\ num_cols > 0}]

\* first transaction: everything is deleted, then the columns are appended
clear_and_add_columns(doc, num_cols) ==
    [doc |-> [rowOrder |-> << >>,
              colOrder |-> [i \in 1 .. num_cols |-> col_id_of(i - 1)],
              cells |-> << >>,
              cardsMetadata |-> << >>],
     touched |-> {x \in Structures :
                     \/ x = "rowOrder" /\ Len(doc.rowOrder) > 0
                     \/ x = "colOrder" /\ (Len(doc.colOrder) > 0 \/ num_cols > 0)
                     \/ x = "cells" /\ DOMAIN doc.cells # {}
                     \/ x = "cardsMetadata" /\ DOMAIN doc.cardsMetadata # {}}]

\* second transaction: max_rows rows are appended, then the cards are
\* assigned column by column.  cards_per_col[col_idx] past the end of the
\* list raises IndexError, which leaves the block with the edits made so far.
add_rows_and_assign(doc, num_cols, cards_per_col, first_card, first_row) ==
    LET max_rows == Max(cards_per_col)
        rows == [i \in 1 .. max_rows |-> row_id_of(first_row + i - 1)]
        filled == IF num_cols <= Len(cards_per_col) THEN num_cols ELSE Len(cards_per_col)
        slots == {<<c, j>> \in (0 .. filled - 1) \X (0 .. max_rows - 1) : j < cards_per_col[c + 1]}
        card_index(c, j) == Sum(SubSeq(cards_per_col, 1, c)) + j
        keys == {<<rows[sl[2] + 1], col_id_of(sl[1])>> : sl \in slots}
        slot_of(k) == CHOOSE sl \in slots : k = <<rows[sl[2] + 1], col_id_of(sl[1])>>
    IN [doc |-> [doc EXCEPT !.rowOrder = @ \o rows,
                            !.cells = [k \in keys |->
                                [cardId |-> card_id_of(first_card
                                               + card_index(slot_of(k)[1], slot_of(k)[2]))]]],
        raised |-> num_cols > Len(cards_per_col),
        touched |-> {x \in Structures : \/ x = "rowOrder" /\ max_rows > 0
                                        \/ x = "cells" /\ slots # {}}]

\* the body of regenerate_sheet after the room is acquired.  n0 is the number
\* of ulids generated before the call; fault names the Datastore call that
\* raises, if any.  A failure raises HTTPException(500) to the caller.
regenerate_sheet(doc, num_cols, cards_per_col, n0, fault) ==
    IF cards_per_col = << >>
    THEN \* max() of an empty list raises ValueError
         [doc |-> doc, ok |-> FALSE, txns |-> << >>, commits |-> << >>, ulids |-> n0]
    ELSE IF fault = "delete_multi" /\ DOMAIN doc.cardsMetadata # {}
    THEN [doc |-> doc, ok |-> FALSE, txns |-> << >>, commits |-> << >>, ulids |-> n0]
    ELSE LET total_cards == Sum(cards_per_col)
             t1 == clear_and_add_columns(doc, num_cols)
             t2 == add_rows_and_assign(t1.doc, num_cols, cards_per_col, n0, n0 + total_cards)
         IN IF fault = "put_multi"
            THEN [doc |-> t1.doc, ok |-> FALSE, txns |-> <<t1.touched>>,
                  commits |-> <<t1.doc>>, ulids |-> n0 + total_cards]
            ELSE [doc |-> t2.doc, ok |-> ~t2.raised, txns |-> <<t1.touched, t2.touched>>,
                  commits |-> <<t1.doc, t2.doc>>,
                  ulids |-> n0 + total_cards + Max(cards_per_col)]

-----------------------------------------------------------------------------
(* Snapshot store (gcs_snapshots.py) *)

\* a blob written by save_snapshot holds the encoded document; a blob whose
\* bytes apply_update rejects is Corrupt
Blob(doc) == [kind |-> "ybin", state |-> doc]
Corrupt == [kind |-> "corrupt"]

\* apply_update(ydoc, snapshot_data) on a well-formed blob: the snapshot is
\* merged into the document.  Into an empty document the result is the
\* snapshot; otherwise the two arrays are concatenated in the order the CRDT
\* picks (order) and a key present on both sides keeps one of the two values.
apply_update(ydoc, blob, order) ==
    LET a == IF order = "snapshot_first" THEN blob.state ELSE ydoc
        b == IF order = "snapshot_first" THEN ydoc ELSE blob.state
    IN [rowOrder |-> a.rowOrder \o b.rowOrder,
        colOrder |-> a.colOrder \o b.colOrder,
        cells |-> [k \in (DOMAIN a.cells) \cup (DOMAIN b.cells) |->
                      IF k \in DOMAIN a.cells THEN a.cells[k] ELSE b.cells[k]],
        cardsMetadata |-> [k \in (DOMAIN a.cardsMetadata) \cup (DOMAIN b.cardsMetadata) |->
                      IF k \in DOMAIN a.cardsMetadata THEN a.cardsMetadata[k]
                      ELSE b.cardsMetadata[k]]]

\* a purge that deletes nothing
delete_all_snapshots_mut(st, kept) == st

\* delete_all_snapshots: every blob under sheets/ is deleted, except those
\* whose blob.delete() raises (kept); a failure to list deletes nothing
delete_all_snapshots(st, kept) == [k \in (DOMAIN st) \cap kept |-> st[k]]

\* a load that purges the bucket whenever it does not succeed
load_snapshot_mut(st, sheet_id, ydoc, io, order, kept) ==
    IF io # "error" /\ sheet_id \in DOMAIN st /\ st[sheet_id].kind = "ybin"
    THEN [success |-> TRUE, store |-> st, ydoc |-> apply_update(ydoc, st[sheet_id], order),
          purged |-> << >>]
    ELSE [success |-> FALSE, store |-> delete_all_snapshots(st, kept), ydoc |-> ydoc,
          purged |-> <<[sheet |-> sheet_id, before |-> st, kept |-> (DOMAIN st) \cap kept]>>]

\* load_snapshot.  io = "error" is an I/O failure of exists()/download;
\* kept is the set of blobs whose deletion fails during a purge.
load_snapshot(st, sheet_id, ydoc, io, order, kept) ==
    IF io = "error"
    THEN [success |-> FALSE, store |-> st, ydoc |-> ydoc, purged |-> << >>]
    ELSE IF sheet_id \notin DOMAIN st
    THEN [success |-> FALSE, store |-> st, ydoc |-> ydoc, purged |-> << >>]
    ELSE IF st[sheet_id].kind = "ybin"
    THEN [success |-> TRUE, store |-> st, ydoc |-> apply_update(ydoc, st[sheet_id], order),
          purged |-> << >>]
    ELSE [success |-> FALSE, store |-> delete_all_snapshots(st, kept), ydoc |-> ydoc,
          purged |-> <<[sheet |-> sheet_id, before |-> st, kept |-> (DOMAIN st) \cap kept]>>]

\* a save that uploads an empty document instead of the one it is given
save_snapshot_mut(st, sheet_id, ydoc, io) ==
    [success |-> TRUE, store |-> Put(st, sheet_id, Blob(EmptyDoc))]

\* save_snapshot: io = "error" is a failure of the upload
save_snapshot(st, sheet_id, ydoc, io) ==
    IF io = "error" THEN [success |-> FALSE, store |-> st]
    ELSE [success |-> TRUE, store |-> Put(st, sheet_id, Blob(ydoc))]

-----------------------------------------------------------------------------
(* Rooms and the registry (server.py) *)

\* yws = NanosheetServer(rooms_ready=True, auto_clean_rooms=False)
rooms_ready == TRUE
auto_clean_rooms == FALSE

\* NanosheetRoom(room_name=room_name, ready=self.rooms_ready, ystore=None, log=...)
NanosheetRoom(room_name) ==
    [room_name |-> room_name, ready |-> rooms_ready, started |-> FALSE,
     observers |-> [s \in Structures |-> 0], ydoc |-> EmptyDoc]

\* a registry that builds a Room on every lookup
get_room_mut(name) ==
    [rooms |-> Put(rooms, name, Len(heap) + 1),
     heap |-> Append(heap, NanosheetRoom(room_name_of(name))),
     room |-> Len(heap) + 1]

\* NanosheetServer.get_room: no await inside, so it runs in one step
get_room(name) ==
    IF name \notin DOMAIN rooms
    THEN [rooms |-> Put(rooms, name, Len(heap) + 1),
          heap |-> Append(heap, NanosheetRoom(room_name_of(name))),
          room |-> Len(heap) + 1]
    ELSE [rooms |-> rooms, heap |-> heap, room |-> rooms[name]]

\* NanosheetRoom.start: load the snapshot, attach on_change to the four
\* structures, then start the room
start(room, st, bucket, io, order, kept) ==
    LET l == IF bucket THEN load_snapshot(st, room.room_name, room.ydoc, io, order, kept)
             ELSE [success |-> FALSE, store |-> st, ydoc |-> room.ydoc, purged |-> << >>]
    IN [room |-> [room EXCEPT !.ydoc = l.ydoc,
                              !.observers = IF bucket THEN [s \in Structures |-> @[s] + 1] ELSE @,
                              !.started = TRUE],
        store |-> l.store,
        loaded |-> l.success,
        purged |-> l.purged]

\* the prologue of every API call:
\*     room = await self.yjs_server.get_room(room_name)
\*     if not room.ready: await room.start()
acquire(sheet_id, io, order, kept) ==
    LET g == get_room(RoomKey(sheet_id))
        room == g.heap[g.room]
    IN IF ~room.ready
       THEN LET s == start(room, store, GCS_BUCKET, io, order, kept)
            IN [rooms |-> g.rooms, heap |-> [g.heap EXCEPT ![g.room] = s.room],
                store |-> s.store, room |-> g.room, purged |-> s.purged]
       ELSE [rooms |-> g.rooms, heap |-> g.heap, store |-> store, room |-> g.room,
             purged |-> << >>]

\* on_change, once per attached observer of each structure the transaction
\* changed: asyncio.create_task(debounced_save_snapshot(self.room_name, self.ydoc))
RECURSIVE Copies(_, _)
Copies(x, n) == IF n = 0 THEN << >> ELSE <<x>> \o Copies(x, n - 1)

fired(room, touched, s) == IF s \in touched THEN room.observers[s] ELSE 0

on_change(room, idx, touched) ==
    Copies([kind |-> "debounce", sheet |-> room.room_name, room |-> idx],
           fired(room, touched, "rowOrder") + fired(room, touched, "colOrder")
           + fired(room, touched, "cells") + fired(room, touched, "cardsMetadata"))

\* the callbacks of the transactions of one call, in commit order
RECURSIVE notify(_, _, _)
notify(room, idx, txns) ==
    IF txns = << >> THEN << >>
    ELSE on_change(room, idx, Head(txns)) \o notify(room, idx, Tail(txns))

\* debounced_save_snapshot(sheet_id, ydoc, delay: float = 0.8), in ticks
Delay == 2

Get(d, k, default) == IF k \in DOMAIN d THEN d[k] ELSE default

\* bookkeeping of k change notifications of one sheet arriving now
NoteChange(sheet, k) ==
    IF k = 0 THEN UNCHANGED <<notifs, gapOK, sinceLast>>
    ELSE /\ notifs' = Put(notifs, sheet, Get(notifs, sheet, 0) + k)
         /\ gapOK' = Put(gapOK, sheet, Get(gapOK, sheet, TRUE) /\ Get(sinceLast, sheet, 0) < Delay)
         /\ sinceLast' = Put(sinceLast, sheet, 0)

\* the history before the first API call
NoCall ==
    [op |-> "none", sheet |-> << >>, args |-> << >>, ok |-> TRUE, pre |-> EmptyDoc, room |-> 0,
     txns |-> << >>, commits |-> << >>, fires |-> << >>, raised |-> FALSE, saved |-> 0]

\* the document an API call on sheet_id finds after its prologue
DocOf(sheet_id) ==
    LET a == acquire(sheet_id, "ok", "snapshot_first", {})
    IN a.heap[a.room].ydoc

\* the bucket an API call on sheet_id finds after its prologue
StoreOf(sheet_id) == acquire(sheet_id, "ok", "snapshot_first", {}).store

\* one API call: prologue, transaction(s) with outcome r on DocOf(sheet_id),
\* observers; st is the bucket the call leaves
CallStore(op, sheet_id, args, r, st) ==
    LET a == acquire(sheet_id, "ok", "snapshot_first", {})
        room == a.heap[a.room]
        n == notify(room, a.room, r.txns)
    IN /\ rooms' = a.rooms
       /\ heap' = [a.heap EXCEPT ![a.room].ydoc = r.doc]
       /\ store' = st
       /\ purges' = purges \o a.purged
       /\ ready' = ready \o n
       /\ NoteChange(room.room_name, Len(n))
       /\ last' = [op |-> op, sheet |-> sheet_id, args |-> args, ok |-> r.ok,
                   pre |-> room.ydoc, room |-> a.room, txns |-> r.txns,
                   commits |-> r.commits,
                   raised |-> (op = "regenerate_sheet" /\ ~r.ok),
                   saved |-> Len(Get(saves, room.room_name, << >>)),
                   fires |-> [i \in 1 .. Len(r.txns) |->
                                 Len(on_change(room, a.room, r.txns[i]))]]
       /\ txnBeforeStart' = (txnBeforeStart \/ (r.txns # << >> /\ ~room.started))
       /\ UNCHANGED <<requests, GCS_BUCKET, snapshot_tasks, tasks, saves>>

\* an API call that does not touch the bucket
Call(op, sheet_id, args, r) == CallStore(op, sheet_id, args, r, StoreOf(sheet_id))

-----------------------------------------------------------------------------
(* API calls as actions *)

InsertCard(sheet_id, lane_id, card_id, position_offset) ==
    /\ Call("insert_card_at_front_of_lane", sheet_id, <<lane_id, card_id, position_offset>>,
            insert_card_at_front_of_lane(DocOf(sheet_id), lane_id, card_id, position_offset))
    /\ UNCHANGED <<batch, ulids>>

SyncCell(sheet_id, row_id, col_id, card_id) ==
    /\ Call("sync_cell_to_sheet", sheet_id, <<row_id, col_id, card_id>>,
            sync_cell_to_sheet(DocOf(sheet_id), row_id, col_id, card_id))
    /\ UNCHANGED <<batch, ulids>>

\* regenerate_sheet, the handler.  Without a bucket ds_client is None and the
\* handler raises before it touches anything.  With one, the snapshot of the
\* sheet is deleted before the first transaction unless the Datastore delete
\* raised first; a failure of the wipe is logged and ignored.
Regenerate(sheet_id, num_cols, cards_per_col, fault, wipe) ==
    LET r == regenerate_sheet(DocOf(sheet_id), num_cols, cards_per_col, ulids, fault)
        reached == cards_per_col # << >> /\ (r.ok \/ r.txns # << >>)
    IN /\ GCS_BUCKET
       /\ CallStore("regenerate_sheet", sheet_id, <<num_cols, cards_per_col, fault>>,
                    [doc |-> r.doc, ok |-> r.ok, txns |-> r.txns, commits |-> r.commits],
                    IF reached /\ wipe = "ok" /\ sheet_id \in DOMAIN StoreOf(sheet_id)
                    THEN Pop(StoreOf(sheet_id), sheet_id) ELSE StoreOf(sheet_id))
       /\ ulids' = r.ulids
       /\ UNCHANGED batch

AddRow(sheet_id, row_id, position) ==
    /\ Call("add_row_to_sheet", sheet_id, <<row_id, position>>,
            add_row_to_sheet(DocOf(sheet_id), row_id, position))
    /\ UNCHANGED <<batch, ulids>>

AddColumn(sheet_id, col_id, position) ==
    /\ Call("add_column_to_sheet", sheet_id, <<col_id, position>>,
            add_column_to_sheet(DocOf(sheet_id), col_id, position))
    /\ UNCHANGED <<batch, ulids>>

\* a YjsSync operation whose get_room raises: nothing is created or edited,
\* and the except clause decides what the caller gets
AcquireFails(op, sheet_id) ==
    /\ last' = [NoCall EXCEPT !.op = op, !.sheet = sheet_id, !.ok = FALSE,
                              !.raised = (except_clause(op, "get_room") # "False")]
    /\ UNCHANGED <<requests, GCS_BUCKET, rooms, heap, store, snapshot_tasks, tasks, ready, sinceLast,
                   notifs, saves, gapOK, txnBeforeStart, batch, ulids, purges>>

SyncCard(sheet_id, card_id, card_data) ==
    /\ Call("sync_card_to_sheet", sheet_id, <<card_id>>,
            sync_card_to_sheet(DocOf(sheet_id), card_id, card_data))
    /\ UNCHANGED <<batch, ulids>>

\* ---- upload_card (cards_api.py:505-680) ----------------------------------

placeholder_data == [title |-> "upload", color |-> "#CCCCCC", prompt |-> "", isLoading |-> TRUE]

final_card_data ==
    [title |-> "upload", color |-> "#CCCCCC", prompt |-> "", media_url |-> "url",
     thumb_url |-> "url", media_type |-> "image", isLoading |-> FALSE]

\* the cards of one upload batch; the card sent with insert_index o
BatchCards == <<"X", "Y", "Z">>
BatchOffsets == 0 .. Len(BatchCards) - 1
BatchCard(o) == BatchCards[o + 1]

\* step 1: the loading placeholder, then the insert at 1 + insert_index.
\* Neither call suspends, so the two run back to back; the value the insert
\* returns is not looked at.
upload_card_placeholder(sheet_id, lane_id, insert_index) ==
    /\ insert_index \in batch.todo
    /\ Call("upload_card", sheet_id,
            <<lane_id, BatchCard(insert_index), insert_index>>,
            LET p == sync_card_to_sheet(DocOf(sheet_id), BatchCard(insert_index), placeholder_data)
            IN Then(p, insert_card_at_front_of_lane(p.doc, lane_id,
                                                    BatchCard(insert_index), insert_index)))
    /\ batch' = [batch EXCEPT !.todo = @ \ {insert_index},
                              !.uploading = @ \cup {insert_index},
                              !.placed = IF last'.ok THEN @ \cup {insert_index} ELSE @]
    /\ UNCHANGED ulids

\* steps 2 to 4: the media is uploaded, then the final card data is synced
upload_card_final(sheet_id, insert_index) ==
    /\ insert_index \in batch.uploading
    /\ Call("sync_card_to_sheet", sheet_id, <<BatchCard(insert_index)>>,
            sync_card_to_sheet(DocOf(sheet_id), BatchCard(insert_index), final_card_data))
    /\ batch' = [batch EXCEPT !.uploading = @ \ {insert_index}]
    /\ UNCHANGED ulids

\* step 2 raises HTTPException (not an image or video, empty or too large):
\* the placeholder stays as it is
upload_card_rejected(insert_index) ==
    /\ insert_index \in batch.uploading
    /\ batch' = [batch EXCEPT !.uploading = @ \ {insert_index}]
    /\ UNCHANGED <<requests, GCS_BUCKET, rooms, heap, store, snapshot_tasks, tasks, ready, sinceLast,
                   notifs, saves, gapOK, last, txnBeforeStart, ulids, purges>>

\* a websocket client connects on the /yjs mount: the websocket server looks
\* the room of the request path up with get_room and starts it unless it is
\* already started (ypy_websocket's connection handler)
Connect(name) ==
    LET g == get_room(name)
        room == g.heap[g.room]
    IN /\ rooms' = g.rooms
       /\ IF room.started
          THEN heap' = g.heap /\ store' = store /\ purges' = purges
          ELSE \E io \in {"ok", "error"}, order \in {"snapshot_first", "local_first"},
                  kept \in SUBSET (DOMAIN store) :
                  LET s == start(room, store, GCS_BUCKET, io, order, kept)
                  IN /\ heap' = [g.heap EXCEPT ![g.room] = s.room]
                     /\ store' = s.store
                     /\ purges' = purges \o s.purged
       /\ UNCHANGED <<requests, GCS_BUCKET, snapshot_tasks, tasks, ready, sinceLast, notifs, saves,
                      gapOK, last, txnBeforeStart, batch, ulids>>

-----------------------------------------------------------------------------
(* The debouncer (server.py:35-62) on the asyncio event loop *)

\* a save_task() task: "new" until its first step, "sleeping" in
\* asyncio.sleep(delay), "waking" once its wake-up is queued, then "done"
\* born: how many saves of the sheet had been attempted when it was created
SaveTask(sheet_id, room) ==
    [sheet |-> sheet_id, room |-> room, st |-> "new", cancelled |-> FALSE, rem |-> Delay,
     born |-> Len(Get(saves, sheet_id, << >>))]

StepOf(t) == [kind |-> "step", task |-> t]

\* a cancel that reaches the save tasks of every sheet
cancel_mut(ts, t) ==
    [i \in 1 .. Len(ts) |->
        IF ts[i].st = "done" THEN ts[i]
        ELSE [ts[i] EXCEPT !.cancelled = TRUE,
                           !.st = IF @ = "sleeping" THEN "waking" ELSE @]]

\* snapshot_tasks[sheet_id].cancel(): a finished task ignores it; a sleeping
\* task is woken with CancelledError; a task that has not run yet, or whose
\* wake-up is already queued, finds the request at its next step
cancel(ts, t) ==
    IF ts[t].st = "done" THEN ts
    ELSE [ts EXCEPT ![t].cancelled = TRUE,
                    ![t].st = IF @ = "sleeping" THEN "waking" ELSE @]

\* debounced_save_snapshot(sheet_id, ydoc): runs in one step
debounced_save_snapshot ==
    /\ ready # << >>
    /\ Head(ready).kind = "debounce"
    /\ LET sheet_id == Head(ready).sheet
           old == IF sheet_id \in DOMAIN snapshot_tasks THEN snapshot_tasks[sheet_id] ELSE 0
           ts == IF old = 0 THEN tasks ELSE cancel(tasks, old)
           woken == IF old # 0 /\ tasks[old].st = "sleeping" THEN <<StepOf(old)>> ELSE << >>
           new == Len(tasks) + 1
       IN /\ tasks' = Append(ts, SaveTask(sheet_id, Head(ready).room))
          /\ snapshot_tasks' = Put(snapshot_tasks, sheet_id, new)
          /\ ready' = Tail(ready) \o woken \o <<StepOf(new)>>
    /\ UNCHANGED <<requests, GCS_BUCKET, rooms, heap, store, sinceLast, notifs, saves, gapOK, last,
                   txnBeforeStart, batch, ulids, purges>>

\* a finally that deletes the entry only while it still refers to this task
finally_mut(sheet_id, t) ==
    IF sheet_id \in DOMAIN snapshot_tasks /\ snapshot_tasks[sheet_id] = t
    THEN Pop(snapshot_tasks, sheet_id) ELSE snapshot_tasks

\* finally: if sheet_id in snapshot_tasks: del snapshot_tasks[sheet_id]
finally(sheet_id, t) ==
    IF sheet_id \in DOMAIN snapshot_tasks THEN Pop(snapshot_tasks, sheet_id) ELSE snapshot_tasks

\* one step of save_task()
save_task ==
    /\ ready # << >>
    /\ Head(ready).kind = "step"
    /\ LET t == Head(ready).task
           task == tasks[t]
       IN /\ ready' = Tail(ready)
          /\ IF task.st = "new"
             THEN \* a task cancelled before its first step never enters the try
                  /\ tasks' = [tasks EXCEPT ![t].st = IF task.cancelled THEN "done" ELSE "sleeping"]
                  /\ UNCHANGED <<snapshot_tasks, store, saves>>
             ELSE IF task.cancelled
             THEN \* except asyncio.CancelledError, then finally
                  /\ tasks' = [tasks EXCEPT ![t].st = "done"]
                  /\ snapshot_tasks' = finally(task.sheet, t)
                  /\ UNCHANGED <<store, saves>>
             ELSE \* save_snapshot(GCS_BUCKET, sheet_id, ydoc), then finally
                  /\ tasks' = [tasks EXCEPT ![t].st = "done"]
                  /\ \E io \in {"ok", "error"} :
                        store' = save_snapshot(store, task.sheet, heap[task.room].ydoc, io).store
                  /\ saves' = Put(saves, task.sheet,
                                  Append(Get(saves, task.sheet, << >>), Get(notifs, task.sheet, 0)))
                  /\ snapshot_tasks' = finally(task.sheet, t)
    /\ UNCHANGED <<requests, GCS_BUCKET, rooms, heap, sinceLast, notifs, gapOK, last, txnBeforeStart, batch, ulids, purges>>

\* the timer of asyncio.sleep(delay) expires: the task's wake-up is queued
TimerExpire ==
    \E t \in 1 .. Len(tasks) :
        /\ tasks[t].st = "sleeping"
        /\ tasks[t].rem = 0
        /\ tasks' = [tasks EXCEPT ![t].st = "waking"]
        /\ ready' = Append(ready, StepOf(t))
        /\ UNCHANGED <<requests, GCS_BUCKET, rooms, heap, store, snapshot_tasks, sinceLast, notifs, saves,
                       gapOK, last, txnBeforeStart, batch, ulids, purges>>

\* time passes once the loop has nothing ready to run and no timer is due
Tick ==
    /\ ready = << >>
    /\ \A t \in 1 .. Len(tasks) : tasks[t].st = "sleeping" => tasks[t].rem > 0
    /\ \/ \E t \in 1 .. Len(tasks) : tasks[t].st = "sleeping"
       \/ \E s \in DOMAIN sinceLast : sinceLast[s] < Delay
    /\ tasks' = [t \in 1 .. Len(tasks) |->
                    IF tasks[t].st = "sleeping" THEN [tasks[t] EXCEPT !.rem = @ - 1] ELSE tasks[t]]
    /\ sinceLast' = [s \in DOMAIN sinceLast |-> IF sinceLast[s] < Delay THEN sinceLast[s] + 1 ELSE Delay]
    /\ UNCHANGED <<requests, GCS_BUCKET, rooms, heap, store, snapshot_tasks, ready, notifs, saves, gapOK,
                   last, txnBeforeStart, batch, ulids, purges>>

NoBatch == [todo |-> {}, uploading |-> {}, placed |-> {}]

NoRequests == [calls |-> << >>, observed |-> << >>]

\* the event loop, the debouncer and the history at process start
Quiet ==
    /\ snapshot_tasks = << >>
    /\ tasks = << >>
    /\ ready = << >>
    /\ sinceLast = << >>
    /\ notifs = << >>
    /\ saves = << >>
    /\ gapOK = << >>
    /\ last = NoCall
    /\ txnBeforeStart = FALSE
    /\ purges = << >>
    /\ ulids = 0
    /\ requests = NoRequests

\* everything outside the registry, the documents and the batch, at process
\* start, with an empty bucket
Idle == store = << >> /\ Quiet

-----------------------------------------------------------------------------
(* SpecLane: the lane inserter on one sheet.  The room of sheet A exists and  *)
(* its rowOrder is any sequence of row ids that add_row_to_sheet can build.   *)

RoomWith(sheet_id, doc) == [NanosheetRoom(room_name_of(RoomKey(sheet_id))) EXCEPT !.ydoc = doc]

\* lane c1 is full; lane c0, the lane inserted into, is empty but for an
\* optional card in the header row
InitCells(rows, header) ==
    [k \in {<<r, "c1">> : r \in RowIds}
           \cup (IF header /\ rows # << >> THEN {<<rows[1], "c0">>} ELSE {}) |->
        [cardId |-> IF k[2] = "c1" THEN "B" ELSE "A"]]

InitLane ==
    /\ GCS_BUCKET = TRUE
    /\ rooms = [n \in {RoomKey(SheetA)} |-> 1]
    /\ \E rows \in SeqsUpTo(RowIds, MaxRows), header \in BOOLEAN :
          heap = <<RoomWith(SheetA, [EmptyDoc EXCEPT !.rowOrder = rows,
                                                     !.cells = InitCells(rows, header)])>>
    /\ Idle
    /\ batch = NoBatch

NextLane ==
    \E c \in CardIds, o \in Offsets : InsertCard(SheetA, "c0", c, o)

SpecLane == InitLane /\ [][NextLane]_vars

\* the document the last call left behind, and its arguments
post == heap[last.room].ydoc
IsInsert == last.op = "insert_card_at_front_of_lane"
lastLane == last.args[1]
lastCard == last.args[2]
lastTarget == 1 + last.args[3]
Key(doc, i, lane_id) == <<At(doc.rowOrder, i), lane_id>>
Distinct(q) == \A i, j \in 1 .. Len(q) : i # j => q[i] # q[j]
SameCell(a, b, k) == (k \in DOMAIN a <=> k \in DOMAIN b) /\ (k \in DOMAIN a => a[k] = b[k])

\* row indices >= from of the lane that hold a card in doc
Occupied(doc, lane_id, from) ==
    {i \in from .. Len(doc.rowOrder) - 1 : Key(doc, i, lane_id) \in DOMAIN doc.cells}

\* C3 as stated: after a successful insert the new card is at targetPosition
\* and every card that was at row index i >= targetPosition of the lane is at
\* row index i + 1 of the lane
C3_ShiftedByOne ==
    (IsInsert /\ last.ok) =>
        /\ Key(last.pre, lastTarget, lastLane) \in DOMAIN post.cells
        /\ post.cells[Key(last.pre, lastTarget, lastLane)] = [cardId |-> lastCard]
        /\ \A i \in Occupied(last.pre, lastLane, lastTarget) :
              /\ i + 1 < Len(last.pre.rowOrder)
              /\ Key(last.pre, i + 1, lastLane) \in DOMAIN post.cells
              /\ post.cells[Key(last.pre, i + 1, lastLane)] = last.pre.cells[Key(last.pre, i, lastLane)]

\* C3 amended: the same, for a rowOrder whose row ids are pairwise distinct
C3_ShiftedByOne_DistinctRows ==
    Distinct(last.pre.rowOrder) => C3_ShiftedByOne

\* a successful insert that shifted two cards of a lane with distinct rows
C3_Witness ==
    /\ IsInsert
    /\ last.ok
    /\ Distinct(last.pre.rowOrder)
    /\ Cardinality(Occupied(last.pre, lastLane, lastTarget)) >= 2
    /\ \E i, j \in Occupied(last.pre, lastLane, lastTarget) :
          last.pre.cells[Key(last.pre, i, lastLane)] # last.pre.cells[Key(last.pre, j, lastLane)]

\* C4: an insert whose targetPosition is >= len(rowOrder) returns failure and
\* leaves rowOrder, colOrder, cells and cardsMetadata as they were
C4_OutOfRangeUnchanged ==
    (IsInsert /\ lastTarget >= Len(last.pre.rowOrder)) => (~last.ok /\ post = last.pre)

\* an out-of-range insert into a lane that holds a card, on a sheet with rows
C4_Witness ==
    /\ IsInsert
    /\ lastTarget >= Len(last.pre.rowOrder)
    /\ Len(last.pre.rowOrder) > 1
    /\ \E r \in RowIds : <<r, lastLane>> \in DOMAIN last.pre.cells

\* C5 as stated: an insert on lane L with target p changes nothing but cells
\* of lane L at row indices >= p: rowOrder, colOrder, cardsMetadata, the
\* cells of the other lanes and the cells of L in rows below p stay
C5_Frame ==
    IsInsert =>
        /\ post.rowOrder = last.pre.rowOrder
        /\ post.colOrder = last.pre.colOrder
        /\ post.cardsMetadata = last.pre.cardsMetadata
        /\ \A r \in RowIds, l \in LaneIds :
              (l # lastLane \/ \E i \in 0 .. lastTarget - 1 :
                                  i < Len(last.pre.rowOrder) /\ At(last.pre.rowOrder, i) = r)
                  => SameCell(last.pre.cells, post.cells, <<r, l>>)

\* C5 amended: the same, for a rowOrder whose row ids are pairwise distinct
C5_Frame_DistinctRows ==
    Distinct(last.pre.rowOrder) => C5_Frame

\* a successful insert, distinct rows, with a card in the header row of the
\* lane and cards in the other lane
C5_Witness ==
    /\ IsInsert
    /\ last.ok
    /\ Distinct(last.pre.rowOrder)
    /\ Key(last.pre, 0, lastLane) \in DOMAIN last.pre.cells
    /\ Occupied(last.pre, lastLane, lastTarget) # {}
    /\ \E r \in RowIds, l \in LaneIds : l # lastLane /\ <<r, l>> \in DOMAIN last.pre.cells

-----------------------------------------------------------------------------
(* SpecDebounce: two sheets, clients connect, cells are edited, time passes *)

InitRegistry ==
    /\ rooms = << >>
    /\ heap = << >>
    /\ Idle
    /\ batch = NoBatch

InitDebounce == GCS_BUCKET = TRUE /\ InitRegistry

TotalNotifs == Get(notifs, SheetA, 0) + Get(notifs, SheetB, 0)

NextDebounce ==
    \/ \E s \in {SheetA, SheetB} : Connect(RoomKey(s))
    \/ \E s \in {SheetA, SheetB} : TotalNotifs < MaxNotifs /\ SyncCell(s, "r0", "c0", "A")
    \/ debounced_save_snapshot
    \/ save_task
    \/ TimerExpire
    \/ Tick

SpecDebounce == InitDebounce /\ [][NextDebounce]_vars

\* nothing of the sheet is queued or sleeping
Quiescent(s) ==
    /\ \A i \in 1 .. Len(ready) : ready[i].kind = "debounce" => ready[i].sheet # s
    /\ \A t \in 1 .. Len(tasks) : tasks[t].sheet = s => tasks[t].st = "done"

\* C1: a burst of k >= 1 change notifications of a sheet, each less than
\* Delay after the previous one, results in exactly one save, made after the
\* last notification of the burst
C1_OneSavePerBurst ==
    \A s \in DOMAIN notifs :
        (gapOK[s] /\ Quiescent(s)) => Get(saves, s, << >>) = <<notifs[s]>>

\* C2: a sheet never has more than one save task that is sleeping and has
\* not been cancelled
Outstanding(s) ==
    {t \in 1 .. Len(tasks) : tasks[t].sheet = s /\ tasks[t].st = "sleeping" /\ ~tasks[t].cancelled}

C2_OnePendingTimer ==
    \A s \in {SheetA, SheetB} : Cardinality(Outstanding(s)) <= 1

-----------------------------------------------------------------------------
(* SpecRegistry: API calls and client connections on three sheet ids, one of *)
(* which carries the /yjs/ prefix itself                                     *)

InitServer == GCS_BUCKET \in BOOLEAN /\ InitRegistry

NextRegistry ==
    \/ \E s \in SheetIds : Connect(RoomKey(s))
    \/ \E s \in SheetIds, c \in {"A", "None"} :
          TotalNotifs < MaxNotifs /\ SyncCell(s, "r0", "c0", c)
    \/ debounced_save_snapshot
    \/ save_task
    \/ TimerExpire
    \/ Tick

SpecRegistry == InitServer /\ [][NextRegistry]_vars

\* C7: no two Room objects have the same sheet id (room_name)
C7_OneRoomPerSheetId ==
    \A i, j \in 1 .. Len(heap) : heap[i].room_name = heap[j].room_name => i = j

\* C8: a name once in the registry stays there, bound to the same Room
\* object, and no Room object is ever dropped
C8_NeverEvicts ==
    [][/\ \A n \in DOMAIN rooms : n \in DOMAIN rooms' /\ rooms'[n] = rooms[n]
       /\ Len(heap') >= Len(heap)
       /\ \A i \in 1 .. Len(heap) : heap'[i].room_name = heap[i].room_name]_vars

\* a call got the Room an earlier call had left a document in
C8_Witness ==
    /\ last.op = "sync_cell_to_sheet"
    /\ last.pre # EmptyDoc
    /\ last.room = rooms[RoomKey(last.sheet)]
    /\ Len(heap) >= 2

\* C10: no transaction of an API call runs on a Room before the Room's start
\* sequence has completed
C10_StartBeforeTransaction == ~txnBeforeStart

-----------------------------------------------------------------------------
(* SpecBatch: one batch of uploads into lane c0 of a sheet with enough rows; *)
(* the requests of the batch are handled in any order                        *)

BatchRows == <<"r0", "r1", "r2", "r3", "r4", "r5">>

InitBatch ==
    /\ GCS_BUCKET = TRUE
    /\ rooms = [n \in {RoomKey(SheetA)} |-> 1]
    /\ \E cells \in {<< >>, [k \in {<<"r1", "c0">>} |-> [cardId |-> "A"]]} :
          heap = <<RoomWith(SheetA, [EmptyDoc EXCEPT !.rowOrder = BatchRows, !.cells = cells])>>
    /\ Idle
    /\ batch = [todo |-> BatchOffsets, uploading |-> {}, placed |-> {}]

NextBatch ==
    \/ \E o \in BatchOffsets : upload_card_placeholder(SheetA, "c0", o)
    \/ \E o \in BatchOffsets : upload_card_final(SheetA, o)
    \/ \E o \in BatchOffsets : upload_card_rejected(o)

SpecBatch == InitBatch /\ [][NextBatch]_vars

\* row index of the card in lane c0 of sheet A's document
Holds(i, card_id) ==
    /\ <<At(heap[1].ydoc.rowOrder, i), "c0">> \in DOMAIN heap[1].ydoc.cells
    /\ heap[1].ydoc.cells[<<At(heap[1].ydoc.rowOrder, i), "c0">>] = [cardId |-> card_id]

\* C6: once every insert of the batch has run, the cards of the batch are in
\* the lane in increasing-offset order from top to bottom
C6_BatchOrder ==
    (batch.todo = {} /\ batch.placed = BatchOffsets) =>
        \A o1, o2 \in BatchOffsets :
            o1 < o2 => \E i, j \in 0 .. Len(heap[1].ydoc.rowOrder) - 1 :
                          i < j /\ Holds(i, BatchCard(o1)) /\ Holds(j, BatchCard(o2))

-----------------------------------------------------------------------------
(* SpecStore: the process starts on a bucket that already holds snapshots,   *)
(* well-formed or not, of sheets A and B; clients connect, cells are edited  *)
(* and the debouncer saves                                                   *)

\* a document saved by an earlier run of the server
StoredDoc ==
    [EmptyDoc EXCEPT !.rowOrder = <<"r0", "r1">>,
                     !.cells = [k \in {<<"r1", "c0">>} |-> [cardId |-> "B"]]]

Buckets ==
    UNION {[S -> {Blob(StoredDoc), Corrupt}] : S \in SUBSET {SheetA, SheetB}}

InitStore ==
    /\ GCS_BUCKET = TRUE
    /\ rooms = << >>
    /\ heap = << >>
    /\ store \in Buckets
    /\ Quiet
    /\ batch = NoBatch

NextStore ==
    \/ \E s \in {SheetA, SheetB} : Connect(RoomKey(s))
    \/ \E s \in {SheetA, SheetB} : TotalNotifs < MaxNotifs - 1 /\ SyncCell(s, "r0", "c0", "A")
    \/ debounced_save_snapshot
    \/ save_task
    \/ TimerExpire
    \/ Tick

SpecStore == InitStore /\ [][NextStore]_vars

LastPurge == purges'[Len(purges')]

\* C11 as stated: when the load of a sheet finds a snapshot that does not
\* apply, the snapshot of every sheet is absent from the store afterwards
C11_PurgeRemovesAll ==
    [][Len(purges') > Len(purges) => store' = << >>]_vars

\* C11 amended: the load returns absent and leaves the document alone, the
\* bucket afterwards holds exactly the blobs whose deletion failed, unchanged,
\* and when no deletion failed the snapshot of every sheet is absent and a
\* load of any sheet returns absent
C11_PurgeRemovesDeletable ==
    [][Len(purges') > Len(purges) =>
          /\ LastPurge.before = store
          /\ LastPurge.before[LastPurge.sheet] = Corrupt
          /\ \A i \in 1 .. Len(heap') :
                (i > Len(heap) \/ ~heap[i].started) /\ heap'[i].started
                    => heap'[i].ydoc = IF i > Len(heap) THEN EmptyDoc ELSE heap[i].ydoc
          /\ DOMAIN store' = LastPurge.kept
          /\ \A b \in DOMAIN store' : store'[b] = store[b]
          /\ LastPurge.kept = {} =>
                /\ store' = << >>
                /\ \A b \in {SheetA, SheetB} :
                      ~load_snapshot(store', b, EmptyDoc, "ok", "snapshot_first", {}).success]_vars

\* the snapshot of A did not apply while B had a well-formed snapshot, and
\* every deletion succeeded
C11_Witness ==
    /\ purges # << >>
    /\ purges[1].sheet = SheetA
    /\ SheetB \in DOMAIN purges[1].before
    /\ purges[1].before[SheetB] = Blob(StoredDoc)
    /\ purges[1].kept = {}
    /\ store = << >>

-----------------------------------------------------------------------------
(* SpecRegen: a sheet, empty or holding earlier content, is regenerated      *)
(* once, before or after a client connects                                   *)

Occupancies == SeqsUpTo(0 .. MaxOcc, MaxCols)

\* content left by earlier calls
EarlierDoc ==
    [rowOrder |-> <<"r0", "r1">>,
     colOrder |-> <<"c0">>,
     cells |-> [k \in {<<"r1", "c0">>} |-> [cardId |-> "A"]],
     cardsMetadata |-> [k \in {"A"} |-> placeholder_data]]

InitRegen ==
    /\ GCS_BUCKET = TRUE
    /\ rooms = [n \in {RoomKey(SheetA)} |-> 1]
    /\ \E doc \in {EmptyDoc, EarlierDoc} : heap = <<RoomWith(SheetA, doc)>>
    /\ Idle
    /\ batch = NoBatch

NextRegen ==
    \/ Connect(RoomKey(SheetA))
    \/ \E num_cols \in 0 .. MaxCols, cards_per_col \in Occupancies,
          fault \in {"none", "delete_multi", "put_multi"},
          wipe \in IF SheetA \in DOMAIN store THEN {"ok", "error"} ELSE {"ok"} :
          /\ last = NoCall
          /\ Regenerate(SheetA, num_cols, cards_per_col, fault, wipe)

SpecRegen == InitRegen /\ [][NextRegen]_vars

IsRegen == last.op = "regenerate_sheet"

\* C12: every document a change observer is called on during a regeneration
\* is the complete pre-regeneration or the complete post-regeneration state,
\* and so is the document the call leaves
C12_NoIntermediateState ==
    IsRegen =>
        /\ \A i \in 1 .. Len(last.commits) :
              last.fires[i] > 0 =>
                  last.commits[i] = last.pre \/ (last.ok /\ last.commits[i] = post)
        /\ last.ok \/ post = last.pre

\* C13: a call that ends in failure leaves rowOrder, colOrder, cells and
\* cardsMetadata as they were before the call
C13_AllOrNothing ==
    (last.op # "none" /\ last.room # 0 /\ ~last.ok) => post = last.pre

\* C14: with persistence configured, every transaction of a call on a
\* started Room that changes an observed structure triggers exactly one call
\* of on_change, however many structures it changes
C14_OneNotificationPerTransaction ==
    [][(/\ GCS_BUCKET
        /\ last' # last
        /\ last'.room <= Len(heap)
        /\ heap[last'.room].started)
          => \A i \in 1 .. Len(last'.txns) :
                last'.txns[i] # {} => last'.fires[i] = 1]_vars

\* C16: a successful regeneration with numLanes lanes and occupancy counts
\* occ leaves the lanes c-0 .. c-(numLanes-1), as many pairwise distinct rows
\* as the largest count, lane i occupied in exactly its first occ[i] rows,
\* and no row, lane, cell or card metadata of the earlier document
C16_RegenerationResult ==
    (IsRegen /\ last.ok) =>
        LET numLanes == last.args[1]
            occ == last.args[2]
            rows == post.rowOrder
        IN /\ Len(post.colOrder) = numLanes
           /\ \A i \in 0 .. numLanes - 1 : post.colOrder[i + 1] = "c-" \o ToString(i)
           /\ \A i \in 1 .. Len(occ) : occ[i] <= Len(rows)
           /\ \E i \in 1 .. Len(occ) : occ[i] = Len(rows)
           /\ Distinct(rows)
           /\ \A i \in 0 .. numLanes - 1, j \in 0 .. Len(rows) - 1 :
                 <<rows[j + 1], post.colOrder[i + 1]>> \in DOMAIN post.cells <=> j < occ[i + 1]
           /\ DOMAIN post.cells \subseteq
                 {<<rows[j], post.colOrder[i]>> : j \in 1 .. Len(rows), i \in 1 .. numLanes}
           /\ post.cardsMetadata = << >>
           /\ \A j \in 1 .. Len(rows) :
                 \A k \in 1 .. Len(last.pre.rowOrder) : rows[j] # last.pre.rowOrder[k]
           /\ \A k \in DOMAIN post.cells : k \notin DOMAIN last.pre.cells

\* a document with content was regenerated into two lanes of different length
C16_Witness ==
    /\ IsRegen /\ last.ok
    /\ last.pre = EarlierDoc
    /\ last.args[1] = 2
    /\ last.args[2] = <<1, 2>>
    /\ Len(post.rowOrder) = 2

-----------------------------------------------------------------------------
(* SpecOps: rows and lanes are appended and inserted on one sheet that no    *)
(* client is connected to, cards are inserted into lane c0, the sheet is     *)
(* regenerated, and room acquisition can fail                                *)

OpsRows == {"r0", "r1"}
Positions == {<< >>} \cup {<<n>> : n \in 0 .. MaxRows}

InitOps ==
    /\ GCS_BUCKET = TRUE
    /\ rooms = [n \in {RoomKey(SheetA)} |-> 1]
    /\ heap = <<RoomWith(SheetA, EmptyDoc)>>
    /\ Idle
    /\ batch = NoBatch

NextOps ==
    \/ \E r \in OpsRows, at \in Positions :
          Len(heap[1].ydoc.rowOrder) < MaxRows /\ AddRow(SheetA, r, at)
    \/ \E c \in LaneIds, at \in Positions :
          Len(heap[1].ydoc.colOrder) < MaxCols /\ AddColumn(SheetA, c, at)
    \/ \E o \in 0 .. 1 : InsertCard(SheetA, "c0", "A", o)
    \/ \E cards_per_col \in {<<1>>, <<2, 1>>} :
          ulids = 0 /\ Regenerate(SheetA, Len(cards_per_col), cards_per_col, "none", "ok")
    \/ \E op \in YjsSyncOps : AcquireFails(op, SheetA)

SpecOps == InitOps /\ [][NextOps]_vars

\* C15: no YjsSync operation lets an exception out to its caller
C15_NeverRaises ==
    last.op \in YjsSyncOps => ~last.raised

Without(q, i) == SubSeq(q, 1, i - 1) \o SubSeq(q, i + 1, Len(q))

\* the order is the earlier order with id added according to position
Placed(before, after, id, position) ==
    IF position = << >>
    THEN after = Append(before, id)
    ELSE /\ Len(after) = Len(before) + 1
         /\ after[position[1] + 1] = id
         /\ Without(after, position[1] + 1) = before

\* C17: a successful append leaves the earlier order followed by the new id,
\* and a successful insert at an index leaves the new id at that index and
\* the other ids in their earlier relative order, for rows and for lanes
C17_OrderPreserved ==
    /\ (last.op = "add_row_to_sheet" /\ last.ok) =>
          /\ Placed(last.pre.rowOrder, post.rowOrder, last.args[1], last.args[2])
          /\ post.colOrder = last.pre.colOrder
    /\ (last.op = "add_column_to_sheet" /\ last.ok) =>
          /\ Placed(last.pre.colOrder, post.colOrder, last.args[1], last.args[2])
          /\ post.rowOrder = last.pre.rowOrder

\* an insert at index 1 into a rowOrder of three ids put the new id between
\* the first and the second
C17_Witness ==
    /\ last.op = "add_row_to_sheet" /\ last.ok
    /\ last.args = <<"r1", <<1>>>>
    /\ last.pre.rowOrder = <<"r0", "r1", "r0">>
    /\ post.rowOrder = <<"r0", "r1", "r1", "r0">>

\* the debounce schedule of one sheet: its slot in snapshot_tasks, its save
\* tasks, and its entries in the ready queue of the loop
SheetOfEntry(x) == IF x.kind = "debounce" THEN x.sheet ELSE tasks[x.task].sheet

Schedule(s) ==
    LET Mine(x) == SheetOfEntry(x) = s
    IN <<Get(snapshot_tasks, s, 0),
         [t \in {u \in 1 .. Len(tasks) : tasks[u].sheet = s} |-> tasks[t]],
         SelectSeq(ready, Mine),
         Get(saves, s, << >>)>>

BlobOf(s) == IF s \in DOMAIN store THEN <<store[s]>> ELSE << >>

\* this step delivers a change notification of sheet s, or runs a
\* debounced_save_snapshot or a save_task step of sheet s
StepOfSheet(s) ==
    \/ Get(notifs', s, 0) > Get(notifs, s, 0)
    \/ /\ ready # << >>
       /\ SheetOfEntry(Head(ready)) = s
       /\ IF Head(ready).kind = "debounce"
          THEN Len(tasks') = Len(tasks) + 1
          ELSE Len(tasks') = Len(tasks) /\ tasks'[Head(ready).task] # tasks[Head(ready).task]

\* C18: a change notification of one sheet, and every debouncer step it
\* leads to, leaves the schedule and the stored blob of every other sheet as
\* they were, and a save of a sheet writes no blob but its own
C18_IndependentSchedules ==
    [][\A a, b \in {SheetA, SheetB} :
          (a # b /\ StepOfSheet(a)) => (Schedule(b)' = Schedule(b) /\ BlobOf(b)' = BlobOf(b))]_vars

\* sheet A was saved while a save task of sheet B was still sleeping, and
\* sheet B has not been saved
C18_Witness ==
    /\ Get(saves, SheetA, << >>) # << >>
    /\ SheetA \in DOMAIN store
    /\ SheetB \notin DOMAIN store
    /\ \E t \in 1 .. Len(tasks) :
          tasks[t].sheet = SheetB /\ tasks[t].st = "sleeping" /\ ~tasks[t].cancelled

\* C19: the ids of rowOrder are pairwise distinct and so are the ids of
\* colOrder, whatever rows and lanes were added, inserted or regenerated
C19_DistinctIds ==
    \A n \in DOMAIN rooms :
        Distinct(heap[rooms[n]].ydoc.rowOrder) /\ Distinct(heap[rooms[n]].ydoc.colOrder)

\* the id a row or lane call adds is not yet in the order it is added to
FreshId ==
    /\ last'.op = "add_row_to_sheet" => \A i \in 1 .. Len(last'.pre.rowOrder) :
                                           last'.pre.rowOrder[i] # last'.args[1]
    /\ last'.op = "add_column_to_sheet" => \A i \in 1 .. Len(last'.pre.colOrder) :
                                              last'.pre.colOrder[i] # last'.args[1]

\* C19 for callers that pass fresh ids: a row or lane call given an id that is
\* not yet present, a regeneration and a lane insert all leave distinct ids
\* distinct
C19_DistinctIdsKept ==
    [][(C19_DistinctIds /\ last' # last /\ last'.room # 0 /\ FreshId) => C19_DistinctIds']_vars

\* an id that was not present was inserted between two others, and the
\* order still has no duplicate
C19_Witness ==
    /\ last.op = "add_row_to_sheet" /\ last.ok
    /\ last.args = <<"r1", <<1>>>>
    /\ last.pre.rowOrder = <<"r0">>
    /\ post.rowOrder = <<"r0", "r1">>
    /\ post.colOrder = <<"c0", "c1">>
    /\ C19_DistinctIds

\* C20: a save of a sheet is made only when at least Delay has passed since
\* the latest change notification of that sheet
C20_NoSaveInQuietPeriod ==
    [][\A s \in {SheetA, SheetB} :
          Get(saves', s, << >>) # Get(saves, s, << >>) => Get(sinceLast, s, Delay) >= Delay]_vars

-----------------------------------------------------------------------------
(* SpecDebounceLive: SpecDebounce with a fair event loop: queued callbacks   *)
(* run, timers expire, and time passes while something waits for it          *)

SpecDebounceLive ==
    /\ SpecDebounce
    /\ WF_vars(debounced_save_snapshot)
    /\ WF_vars(save_task)
    /\ WF_vars(TimerExpire)
    /\ WF_vars(Tick)

SavesOf(s) == Len(Get(saves, s, << >>))

\* the latest API call changed the document of sheet s, and no save of the
\* sheet has been invoked since
Mutated(s) ==
    /\ last.op # "none" /\ last.room # 0
    /\ last.sheet = s
    /\ post # last.pre
    /\ SavesOf(s) = last.saved

\* C21: with persistence configured, a mutation of a sheet's document is
\* eventually followed by a save of that sheet, or by a further call
C21_EventualPersistence ==
    \A s \in {SheetA, SheetB} : Mutated(s) ~> ~Mutated(s)

\* C22: a save task that fires either fails and leaves the bucket as it was
\* or writes the blob of its Room's document as it is at that step, and
\* leaves no entry of the sheet in snapshot_tasks
C22_SaveWritesCurrentState ==
    [][\A s \in {SheetA, SheetB} :
          SavesOf(s)' > SavesOf(s) =>
              /\ s \notin DOMAIN snapshot_tasks'
              /\ \/ store' = store
                 \/ store' = Put(store, s, Blob(heap[tasks[Head(ready).task].room].ydoc))]_vars

\* the first save task of sheet A fired without having been cancelled after
\* a second edit had cleared the cell, and the blob is the cleared document
C22_Witness ==
    /\ Len(tasks) >= 1
    /\ tasks[1].sheet = SheetA /\ tasks[1].st = "done" /\ ~tasks[1].cancelled
    /\ Get(saves, SheetA, << >>) = <<2>>
    /\ SheetA \in DOMAIN store
    /\ store[SheetA] = Blob(heap[tasks[1].room].ydoc)
    /\ heap[tasks[1].room].ydoc.cells = << >>

\* every save of sheet s so far has failed: the bucket of this run starts
\* empty and still has no blob of s
AllFailed(s) == SavesOf(s) > 0 /\ s \notin DOMAIN store

\* C23: after a save of a sheet has failed, a further save of the sheet is
\* attempted only by a task that a change notification scheduled after the
\* failed one
C23_FailedSaveNotRetried ==
    [][\A s \in {SheetA, SheetB} :
          (AllFailed(s) /\ SavesOf(s)' > SavesOf(s)) =>
              tasks[Head(ready).task].born = SavesOf(s)]_vars

Started(s) == RoomKey(s) \in DOMAIN rooms /\ heap[rooms[RoomKey(s)]].started

DocNow(s) == IF RoomKey(s) \in DOMAIN rooms THEN heap[rooms[RoomKey(s)]].ydoc ELSE EmptyDoc

\* C24: the start of a Room whose sheet has no stored snapshot leaves the
\* bucket and the document as they were; a purge happens only on the load of
\* a stored snapshot that does not decode; and the bucket changes only by a
\* purge or by a save
C24_PurgeOnlyOnCorrupt ==
    [][/\ \A s \in {SheetA, SheetB} :
             (~Started(s) /\ Started(s)') =>
                 /\ s \notin DOMAIN store =>
                       (store' = store /\ purges' = purges /\ DocNow(s)' = DocNow(s))
                 /\ purges' # purges =>
                       (s \in DOMAIN store /\ store[s] = Corrupt /\ LastPurge.sheet = s)
       /\ purges' # purges => \E s \in {SheetA, SheetB} : ~Started(s) /\ Started(s)'
       /\ store' # store => (purges' # purges \/ saves' # saves)]_vars

\* the Room of sheet A was started with no snapshot of A stored, and the
\* corrupt snapshot of sheet B is still in the bucket
C24_Witness ==
    /\ Started(SheetA)
    /\ SheetA \notin DOMAIN store
    /\ SheetB \in DOMAIN store /\ store[SheetB] = Corrupt
    /\ purges = << >>

\* C25: when a Room is started and the sheet has no stored snapshot, or one
\* that does not decode, the document of the started Room is empty
C25_StartsEmptyWithoutSnapshot ==
    [][\A s \in {SheetA, SheetB} :
          (~Started(s) /\ Started(s)' /\ (s \notin DOMAIN store \/ store[s] = Corrupt)) =>
              DocNow(s)' = EmptyDoc]_vars

-----------------------------------------------------------------------------
(* SpecTxn: concurrent API requests on one Room, edit by edit.  Each request *)
(* is an asyncio task; a task keeps the event loop until it awaits, so while *)
(* a transaction is open no other task runs unless the block awaits.         *)

\* the with-block of no YjsSync operation contains an await
yields_in_txn_mut(op) == TRUE

yields_in_txn(op) == FALSE

Edit(e, k, v) == [edit |-> e, key |-> k, value |-> v]

NoValue == [cardId |-> ""]

\* the edits of the shift loop, in program order: entries k, k-1, ..., 1
RECURSIVE shift_edits(_, _, _, _)
shift_edits(rows, lane_id, existing, k) ==
    IF k = 0 THEN << >>
    ELSE LET i == existing[k][1]
             cell == existing[k][2]
         IN IF i + 1 >= Len(rows) THEN <<Edit("raise", << >>, NoValue)>>
            ELSE <<Edit("cells.pop", <<At(rows, i), lane_id>>, NoValue),
                   Edit("cells.set", <<At(rows, i + 1), lane_id>>, cell)>>
                 \o shift_edits(rows, lane_id, existing, k - 1)

\* what the transaction of a request does, decided from the document it
\* finds when the block is entered
edits_of(call, doc) ==
    IF call.op = "insert_card_at_front_of_lane"
    THEN LET rows == doc.rowOrder
             lane_id == call.args[1]
             target_position == target_position_of(call.args[3])
         IN IF Len(rows) = 0 \/ target_position >= Len(rows)
            THEN <<Edit("return False", << >>, NoValue)>>
            ELSE LET existing == existing_cards(doc.cells, rows, lane_id, target_position)
                 IN shift_edits(rows, lane_id, existing, Len(existing))
                    \o <<Edit("cells.set", <<At(rows, target_position), lane_id>>,
                              [cardId |-> call.args[2]])>>
    ELSE IF call.op = "sync_cell_to_sheet"
    THEN LET cell_key == <<call.args[1], call.args[2]>>
         IN IF call.args[3] = "None"
            THEN IF cell_key \in DOMAIN doc.cells
                 THEN <<Edit("cells.pop", cell_key, NoValue)>> ELSE << >>
            ELSE <<Edit("cells.set", cell_key, [cardId |-> call.args[3]])>>
    ELSE \* set_card_field on a card that has an entry
         IF call.args[3] = "None"
         THEN IF call.args[2] \in DOMAIN doc.cardsMetadata[call.args[1]]
              THEN <<Edit("card_map.pop", <<call.args[1], call.args[2]>>, NoValue)>>
              ELSE << >>
         ELSE <<Edit("card_map.set", <<call.args[1], call.args[2]>>,
                     [cardId |-> call.args[3]])>>

\* one edit on the document; raised ends the block
apply_edit(doc, e) ==
    IF e.edit = "cells.pop"
    THEN IF e.key \in DOMAIN doc.cells
         THEN [doc |-> [doc EXCEPT !.cells = Pop(@, e.key)], raised |-> FALSE]
         ELSE [doc |-> doc, raised |-> TRUE]
    ELSE IF e.edit = "cells.set"
    THEN [doc |-> [doc EXCEPT !.cells = Put(@, e.key, e.value)], raised |-> FALSE]
    ELSE IF e.edit = "card_map.pop"
    THEN [doc |-> [doc EXCEPT !.cardsMetadata[e.key[1]] = Pop(@, e.key[2])], raised |-> FALSE]
    ELSE IF e.edit = "card_map.set"
    THEN [doc |-> [doc EXCEPT !.cardsMetadata[e.key[1]] = Put(@, e.key[2], e.value.cardId)],
          raised |-> FALSE]
    ELSE [doc |-> doc, raised |-> TRUE]

Request(op, args) == [op |-> op, args |-> args, pc |-> "queued", todo |-> << >>, ok |-> TRUE]

\* the requests a client can have in flight at once
RequestPool ==
    {Request("insert_card_at_front_of_lane", <<"c0", "X", 0>>),
     Request("insert_card_at_front_of_lane", <<"c0", "Y", 1>>),
     Request("sync_cell_to_sheet", <<"r3", "c0", "Z">>),
     Request("sync_cell_to_sheet", <<"r1", "c0", "None">>),
     Request("set_card_field", <<"A", "title", "t">>)}

MaxRequests == 3

RECURSIVE SetToSeqs(_)
SetToSeqs(S) ==
    IF S = {} THEN {<< >>}
    ELSE UNION {{<<x>> \o q : q \in SetToSeqs(S \ {x})} : x \in S}

\* rows r0..r3, lane c0 with card A in r1 and card B in r2
TxnDoc ==
    [rowOrder |-> <<"r0", "r1", "r2", "r3">>,
     colOrder |-> <<"c0">>,
     cells |-> [k \in {<<"r1", "c0">>, <<"r2", "c0">>} |->
                  IF k[1] = "r1" THEN [cardId |-> "A"] ELSE [cardId |-> "B"]],
     cardsMetadata |-> [k \in {"A", "B"} |-> placeholder_data]]

InitTxn ==
    /\ GCS_BUCKET = TRUE
    /\ rooms = [n \in {RoomKey(SheetA)} |-> 1]
    /\ heap = <<RoomWith(SheetA, TxnDoc)>>
    /\ store = << >>
    /\ snapshot_tasks = << >> /\ tasks = << >> /\ ready = << >>
    /\ sinceLast = << >> /\ notifs = << >> /\ saves = << >> /\ gapOK = << >>
    /\ last = NoCall /\ txnBeforeStart = FALSE /\ purges = << >> /\ ulids = 0
    /\ batch = NoBatch
    /\ \E S \in SUBSET RequestPool :
          /\ Cardinality(S) \in 1 .. MaxRequests
          /\ \E q \in SetToSeqs(S) : requests = [calls |-> q, observed |-> << >>]

\* task c may run: no other task is inside a block that does not await
MayRun(c) ==
    \A d \in 1 .. Len(requests.calls) :
        (d # c /\ requests.calls[d].pc = "in_txn") => yields_in_txn(requests.calls[d].op)

TxnFrame ==
    UNCHANGED <<GCS_BUCKET, rooms, store, snapshot_tasks, tasks, ready, sinceLast, notifs,
                saves, gapOK, last, txnBeforeStart, batch, ulids, purges>>

\* the prologue and `with room.ydoc.begin_transaction() as txn:`
BeginTxn(c) ==
    /\ requests.calls[c].pc = "queued"
    /\ MayRun(c)
    /\ requests' = [requests EXCEPT !.calls[c].pc = "in_txn",
                                    !.calls[c].todo = edits_of(requests.calls[c], heap[1].ydoc)]
    /\ UNCHANGED heap
    /\ TxnFrame

\* the next edit of the block; an exception or a return leaves the block
EditTxn(c) ==
    /\ requests.calls[c].pc = "in_txn"
    /\ requests.calls[c].todo # << >>
    /\ MayRun(c)
    /\ LET a == apply_edit(heap[1].ydoc, Head(requests.calls[c].todo))
       IN /\ heap' = [heap EXCEPT ![1].ydoc = a.doc]
          /\ requests' = IF a.raised
                         THEN [requests EXCEPT !.calls[c].pc = "done", !.calls[c].ok = FALSE,
                                               !.calls[c].todo = << >>]
                         ELSE [requests EXCEPT !.calls[c].todo = Tail(@)]
    /\ TxnFrame

\* the end of the block: commit, return True
CommitTxn(c) ==
    /\ requests.calls[c].pc = "in_txn"
    /\ requests.calls[c].todo = << >>
    /\ MayRun(c)
    /\ requests' = [requests EXCEPT !.calls[c].pc = "done"]
    /\ UNCHANGED heap
    /\ TxnFrame

\* another task of the event loop reads the document
Observe ==
    /\ MayRun(0)
    /\ requests.observed # <<heap[1].ydoc>>
    /\ requests' = [requests EXCEPT !.observed = <<heap[1].ydoc>>]
    /\ UNCHANGED heap
    /\ TxnFrame

NextTxn ==
    \/ \E c \in 1 .. Len(requests.calls) : BeginTxn(c)
    \/ \E c \in 1 .. Len(requests.calls) : EditTxn(c)
    \/ \E c \in 1 .. Len(requests.calls) : CommitTxn(c)
    \/ Observe

SpecTxn == InitTxn /\ [][NextTxn]_vars

\* the document after the transaction of one request, run on its own
Alone(doc, call) ==
    IF call.op = "insert_card_at_front_of_lane"
    THEN insert_card_at_front_of_lane(doc, call.args[1], call.args[2], call.args[3]).doc
    ELSE IF call.op = "sync_cell_to_sheet"
    THEN sync_cell_to_sheet(doc, call.args[1], call.args[2], call.args[3]).doc
    ELSE set_card_field(doc, call.args[1], call.args[2], call.args[3], "raises").doc

\* the documents that running all requests of C one after the other, in some
\* order, can leave
RECURSIVE InSomeOrder(_, _)
InSomeOrder(doc, C) ==
    IF C = {} THEN {doc}
    ELSE UNION {InSomeOrder(Alone(doc, requests.calls[c]), C \ {c}) : c \in C}

Finished == {c \in 1 .. Len(requests.calls) : requests.calls[c].pc = "done"}

CardsIn(doc) == {doc.cells[k].cardId : k \in DOMAIN doc.cells}

\* C26: what another task reads is the result of the finished requests run
\* one after the other in some order, so is the final document, and no card
\* is missing from the lane while it is shifted
C26_TransactionsDoNotInterleave ==
    /\ requests.observed # << >> =>
          \E C \in SUBSET (1 .. Len(requests.calls)) :
              requests.observed[1] \in InSomeOrder(TxnDoc, C)
    /\ (requests.calls # << >> /\ Finished = 1 .. Len(requests.calls)) =>
          heap[1].ydoc \in InSomeOrder(TxnDoc, Finished)
    /\ (/\ requests.observed # << >>
        /\ \A d \in 1 .. Len(requests.calls) :
              requests.calls[d].op = "insert_card_at_front_of_lane")
       => {"A", "B"} \subseteq CardsIn(requests.observed[1])

\* two inserts and a field edit have finished, and another task read the
\* document after both cards of the lane had been shifted
C26_Witness ==
    /\ Len(requests.calls) = 3
    /\ Finished = {1, 2, 3}
    /\ requests.calls[1].op = "insert_card_at_front_of_lane" /\ requests.calls[1].ok
    /\ requests.calls[3].op = "set_card_field"
    /\ requests.observed = <<heap[1].ydoc>>
    /\ <<"r3", "c0">> \in DOMAIN heap[1].ydoc.cells
    /\ heap[1].ydoc.cells[<<"r3", "c0">>].cardId = "B"

-----------------------------------------------------------------------------
(* The ordering contract of the consumers: metadata before the cell *)

\* C27: after upload_card's placement step and after regenerate_sheet, every
\* card the call put into a cell has an entry in cardsMetadata
C27_MetadataBeforeCell ==
    (last.op \in {"upload_card", "regenerate_sheet"} /\ last.room # 0) =>
        (CardsIn(post) \ CardsIn(last.pre)) \subseteq DOMAIN post.cardsMetadata

-----------------------------------------------------------------------------
(* SpecCards: the card metadata operations on one sheet whose lane c0 holds *)
(* card A in r0 and card B in r1                                            *)

\* a removal that also clears the cells that hold the card
remove_card_from_sheet_mut(doc, card_id) ==
    Outcome([doc EXCEPT !.cardsMetadata = IF card_id \in DOMAIN @ THEN Pop(@, card_id) ELSE @,
                        !.cells = [k \in {c \in DOMAIN @ : @[c].cardId # card_id} |-> @[k]]],
            TRUE, {"cardsMetadata", "cells"})

\* remove_card_from_sheet, the transaction: pops the entry if there is one
remove_card_from_sheet(doc, card_id) ==
    IF card_id \in DOMAIN doc.cardsMetadata
    THEN Outcome([doc EXCEPT !.cardsMetadata = Pop(@, card_id)], TRUE, {"cardsMetadata"})
    ELSE Outcome(doc, TRUE, {})

SetCardField(sheet_id, card_id, field, value, nested) ==
    /\ Call("set_card_field", sheet_id, <<card_id, field, value>>,
            set_card_field(DocOf(sheet_id), card_id, field, value, nested))
    /\ UNCHANGED <<batch, ulids>>

RemoveCard(sheet_id, card_id) ==
    /\ Call("remove_card_from_sheet", sheet_id, <<card_id>>,
            remove_card_from_sheet(DocOf(sheet_id), card_id))
    /\ UNCHANGED <<batch, ulids>>

CardFields == {"title", "note"}
FieldValues == {"t", "u", "None"}

CardsDoc ==
    [rowOrder |-> <<"r0", "r1">>,
     colOrder |-> <<"c0">>,
     cells |-> [k \in {<<"r0", "c0">>, <<"r1", "c0">>} |->
                  IF k[1] = "r0" THEN [cardId |-> "A"] ELSE [cardId |-> "B"]],
     cardsMetadata |-> [k \in {"A"} |-> placeholder_data]]

InitCards ==
    /\ GCS_BUCKET = TRUE
    /\ rooms = [n \in {RoomKey(SheetA)} |-> 1]
    /\ heap = <<RoomWith(SheetA, CardsDoc)>>
    /\ Idle
    /\ batch = NoBatch

NextCards ==
    \/ \E c \in CardIds, f \in CardFields, v \in FieldValues,
          nested \in {"raises", "raises_set", "detached"} :
          SetCardField(SheetA, c, f, v, nested)
    \/ \E c \in CardIds : RemoveCard(SheetA, c)
    \/ \E c \in CardIds : SyncCard(SheetA, c, placeholder_data)

SpecCards == InitCards /\ [][NextCards]_vars

IsSetField == last.op = "set_card_field"

\* C28: after a successful set_card_field the card has an entry; a non-null
\* value is the value of the field in it and a null value leaves the field
\* absent from it; the other fields of the card, the other cards' entries,
\* rowOrder, colOrder and cells are as before
C28_SetCardField ==
    (IsSetField /\ last.ok) =>
        LET card_id == last.args[1]
            field == last.args[2]
            value == last.args[3]
            old == Get(last.pre.cardsMetadata, card_id, << >>)
        IN /\ card_id \in DOMAIN post.cardsMetadata
           /\ IF value = "None"
              THEN field \notin DOMAIN post.cardsMetadata[card_id]
              ELSE /\ field \in DOMAIN post.cardsMetadata[card_id]
                   /\ post.cardsMetadata[card_id][field] = value
           /\ DOMAIN post.cardsMetadata[card_id] \ {field} = DOMAIN old \ {field}
           /\ \A f \in DOMAIN old \ {field} : post.cardsMetadata[card_id][f] = old[f]
           /\ DOMAIN post.cardsMetadata \ {card_id} = DOMAIN last.pre.cardsMetadata \ {card_id}
           /\ \A c \in DOMAIN last.pre.cardsMetadata \ {card_id} :
                 post.cardsMetadata[c] = last.pre.cardsMetadata[c]
           /\ post.rowOrder = last.pre.rowOrder
           /\ post.colOrder = last.pre.colOrder
           /\ post.cells = last.pre.cells

\* C28 for a card that has an entry when the call is made
C28_SetCardField_ExistingCard ==
    last.args # << >> /\ last.args[1] \in DOMAIN last.pre.cardsMetadata => C28_SetCardField

IsRemove == last.op = "remove_card_from_sheet"

\* C29: remove_card_from_sheet reports success and removes the entry of the
\* card and nothing else: cells, the cells that hold the card among them,
\* rowOrder, colOrder and the entries of the other cards stay, and without an
\* entry of the card the document is unchanged
C29_RemoveOnlyMetadata ==
    IsRemove =>
        LET card_id == last.args[1]
        IN /\ last.ok
           /\ post.cells = last.pre.cells
           /\ post.rowOrder = last.pre.rowOrder
           /\ post.colOrder = last.pre.colOrder
           /\ DOMAIN post.cardsMetadata = DOMAIN last.pre.cardsMetadata \ {card_id}
           /\ \A c \in DOMAIN post.cardsMetadata : post.cardsMetadata[c] = last.pre.cardsMetadata[c]
           /\ card_id \notin DOMAIN last.pre.cardsMetadata => post = last.pre

\* the entry of card A was removed while B had one, and cell r0:c0 still
\* holds card A
C29_Witness ==
    /\ IsRemove
    /\ last.args[1] = "A"
    /\ DOMAIN last.pre.cardsMetadata = {"A", "B"}
    /\ DOMAIN post.cardsMetadata = {"B"}
    /\ post.cells[<<"r0", "c0">>].cardId = "A"

-----------------------------------------------------------------------------
(* The lane inserter keeps the cards of the lane *)

\* in how many cells of the lane the card is
CountOf(doc, lane_id, card_id) ==
    Cardinality({k \in DOMAIN doc.cells : k[2] = lane_id /\ doc.cells[k].cardId = card_id})

LastRowOccupied(doc, lane_id) ==
    doc.rowOrder # << >> /\ Key(doc, Len(doc.rowOrder) - 1, lane_id) \in DOMAIN doc.cells

\* C30 as stated: after an insert, successful or not, every card of the lane
\* is in as many cells of the lane as before, the inserted card in one more
\* after a success; an insert into a lane whose last row holds a card fails
\* and leaves the document unchanged
C30_NoCardLost ==
    IsInsert =>
        /\ \A c \in CardIds :
              CountOf(post, lastLane, c) =
                 CountOf(last.pre, lastLane, c) + (IF last.ok /\ c = lastCard THEN 1 ELSE 0)
        /\ LastRowOccupied(last.pre, lastLane) => (~last.ok /\ post = last.pre)

\* C30 amended: the same, for a rowOrder whose row ids are pairwise distinct
C30_NoCardLost_DistinctRows ==
    Distinct(last.pre.rowOrder) => C30_NoCardLost

\* an in-range insert into a lane with distinct rows that holds two cards
\* below the header, one of them in the last row, has failed
C30_Witness ==
    /\ IsInsert
    /\ ~last.ok
    /\ Distinct(last.pre.rowOrder)
    /\ lastTarget < Len(last.pre.rowOrder)
    /\ LastRowOccupied(last.pre, lastLane)
    /\ Cardinality(Occupied(last.pre, lastLane, 1)) >= 2
    /\ post = last.pre

====
